---- MODULE Spec2Model ----
(***************************************************************************)
(* A model of geektime_dl/gt_apis.py: the GkApiClient session client, its  *)
(* login procedure (reset_session), the request helper (_post), the retry  *)
(* wrapper (_retry) and the read operations.                               *)
(*                                                                         *)
(* A thread is at one of these positions (pc):                             *)
(*   idle           not inside the client                                  *)
(*   body           at the first line of an operation's body               *)
(*   lock_wait      in reset_session's synchronized wrapper, before the    *)
(*                  lock is taken                                          *)
(*   login_inflight inside reset_session, lock held, login POST sent       *)
(*   post           about to call _post for the read request               *)
(*   read_inflight  read POST sent, response not yet received              *)
(*   done           the wrapper has returned or raised; outcome is set     *)
(* and stage says where in _retry.wrap the thread is: the first call of    *)
(* func ("first"), the reset_session of the except clause ("relogin"),     *)
(* the second call of func ("replay"), or the constructor ("ctor").        *)
(***************************************************************************)
EXTENDS Integers, Sequences, FiniteSets, TLC

VARIABLES
    args,        \* the constructor's arguments
    phase,       \* "new", "constructing", "ready" or "failed"
    _cookies, _lock, _account, _password, _area, _no_login, _ua,
    callers,     \* the threads that call the client
    pc, stage, op, arg,
    req,         \* per thread: the request on the wire, awaiting its response
    logline,     \* per thread: what _post logged for that request
    arr, prev,   \* get_post_comments' locals
    outcome,     \* per thread: what the wrapper returned or raised
    trace,       \* per thread: the events of the current call, in order
    served,      \* per thread: the data the server answered in this attempt, in order
    cursors,     \* per thread: the cursors sent in this attempt
    srvMsg,      \* per thread: the error message of the last code != 0 envelope
    jars,        \* per thread, for the current call: the session the first
                 \* attempt failed with and the one the forced re-login produced
    nlogins      \* successful logins so far (names the cookie jars)

vars == <<args, phase, _cookies, _lock, _account, _password, _area, _no_login,
          _ua, callers, pc, stage, op, arg, req, logline, arr, prev, outcome,
          trace, served, cursors, srvMsg, jars, nlogins>>

client == <<_cookies, _lock, _account, _password, _area, _no_login, _ua>>

----------------------------------------------------------------------------
\* Bounds of the model.

\* calls start only while fewer than MaxLogins logins have succeeded
MaxLogins == 2
\* the server answers at most MaxPages comment pages per attempt
MaxPages == 2
\* the server answers at most MaxComments comments per attempt, over all pages
MaxComments == 2
\* a post list holds at most MaxListLen posts
MaxListLen == 2

Threads == {"t1", "t2"}
Main == "t1"

\* Concurrent configurations explore the interleavings over the smallest payloads.
Concurrent == Cardinality(callers) > 1
UserAgents == IF Concurrent THEN {"ua1"} ELSE {"ua1", "ua2"}
Accounts == {"13800000000"}
Passwords == {"hunter2"}
Areas == {"86"}
Ids == IF Concurrent THEN {48} ELSE {48, 320569}
Msgs == IF Concurrent THEN {"busy"} ELSE {"not login", "busy"}
Scores == IF Concurrent THEN {5} ELSE {5, 7}
Posts == IF Concurrent THEN {1} ELSE {1, 2}
ListLen == IF Concurrent THEN 1 ELSE MaxListLen
CommentsCap == IF Concurrent THEN 1 ELSE MaxComments
Pages == IF Concurrent THEN 1 ELSE MaxPages
\* the operations thread t calls: in a concurrent configuration the threads
\* other than Main keep to get_course_list
Operations ==
    {"get_course_list", "get_post_list_of", "get_course_intro",
     "get_post_content", "get_post_comments", "get_video_collection_intro",
     "get_video_collection_list", "get_video_list_of"}
Calls(t) == IF Concurrent /\ t # Main THEN {"get_course_list"} ELSE Operations

----------------------------------------------------------------------------
\* Values.

\* A JSON scalar of a request body.
JStr(s) == [t |-> "str", s |-> s, n |-> 0]
JNum(n) == [t |-> "num", s |-> "", n |-> n]

Digit(d) ==
    CASE d = 0 -> "0" [] d = 1 -> "1" [] d = 2 -> "2" [] d = 3 -> "3"
      [] d = 4 -> "4" [] d = 5 -> "5" [] d = 6 -> "6" [] d = 7 -> "7"
      [] d = 8 -> "8" [] d = 9 -> "9"

\* Python's str() of a non-negative int
RECURSIVE str(_)
str(n) == IF n < 10 THEN Digit(n) ELSE str(n \div 10) \o Digit(n % 10)

\* A cookie value: None, or a jar holding the cookies `items`; `by` tells the
\* jar objects apart: the number of the login whose response it came with, 0
\* for a value handed to the constructor.
None == [set |-> FALSE, items |-> {}, by |-> 0]
EmptyJar == [set |-> TRUE, items |-> {}, by |-> 0]
Jar(k) == [set |-> TRUE, items |-> {k}, by |-> k]
\* the jar of a login response that set no cookie
EmptyJarBy(k) == [set |-> TRUE, items |-> {}, by |-> k]
\* resp.cookies of the k-th successful login: the cookies the response set,
\* which may be none
LoginJars(k) == IF Concurrent THEN {Jar(k)} ELSE {Jar(k), EmptyJarBy(k)}
\* the jar a caller hands to the constructor
SuppliedJar == Jar(0)

\* Python truthiness of a cookie value: None and an empty jar are falsy
Truthy(c) == c.set /\ c.items # {}

NoBody == <<>>
NoReq == [url |-> "", body |-> NoBody, ua |-> "", cookies |-> None]
NoLog == [url |-> "", data |-> NoBody]
NoOutcome == [kind |-> "none", exc |-> "", msg |-> "", cause |-> "", val |-> <<>>]
Returned(v) == [kind |-> "return", exc |-> "", msg |-> "", cause |-> "", val |-> v]
Raised(e, m, c) == [kind |-> "raise", exc |-> e, msg |-> m, cause |-> c, val |-> <<>>]

RECURSIVE Reverse(_)
Reverse(s) == IF s = <<>> THEN <<>> ELSE Append(Reverse(Tail(s)), Head(s))

SeqsUpTo(S, n) == UNION {[1..k -> S] : k \in 0..n}

\* exception classes: requests.RequestException and its subclasses
IsRequestException(e) == e \in {"RequestException", "ConnectionError", "HTTPError"}
IsGkApiError(e) == e = "GkApiError"

----------------------------------------------------------------------------
\* Endpoints.

UrlLogin == "https://account.geekbang.org/account/ticket/login"
UrlOf(o) ==
    CASE o = "get_course_list" -> "https://time.geekbang.org/serv/v1/column/all"
      [] o = "get_post_list_of" -> "https://time.geekbang.org/serv/v1/column/articles"
      [] o = "get_course_intro" -> "https://time.geekbang.org/serv/v1/column/intro"
      [] o = "get_post_content" -> "https://time.geekbang.org/serv/v1/article"
      [] o = "get_post_comments" -> "https://time.geekbang.org/serv/v1/comments"
      [] o = "get_video_collection_intro" -> "https://time.geekbang.org/serv/v2/video/GetCollectById"
      [] o = "get_video_list_of" -> "https://time.geekbang.org/serv/v2/video/GetListByType"

NetworkOps == {"get_course_list", "get_post_list_of", "get_course_intro",
               "get_post_content", "get_post_comments",
               "get_video_collection_intro", "get_video_list_of"}

\* the JSON body each read operation hands to _post
PayloadOf(o, id, cursor) ==
    CASE o = "get_course_list" -> NoBody
      [] o = "get_post_list_of" ->
            ("cid" :> JStr(str(id))) @@ ("size" :> JNum(1000))
              @@ ("prev" :> JNum(0)) @@ ("order" :> JStr("newest"))
      [] o = "get_course_intro" -> ("cid" :> JStr(str(id)))
      [] o = "get_post_content" -> ("id" :> JNum(id))
      [] o = "get_post_comments" ->
            ("aid" :> JStr(str(id))) @@ ("prev" :> JNum(cursor))
      [] o = "get_video_collection_intro" -> ("id" :> JStr(str(id)))
      [] o = "get_video_list_of" ->
            ("id" :> JStr(str(id))) @@ ("size" :> JNum(50))

\* the body reset_session builds from the client's credentials
LoginData ==
    ("country" :> JStr(_area)) @@ ("cellphone" :> JStr(_account))
      @@ ("password" :> JStr(_password)) @@ ("captcha" :> JStr(""))
      @@ ("remember" :> JNum(1)) @@ ("platform" :> JNum(3))
      @@ ("appid" :> JNum(1))

----------------------------------------------------------------------------
\* Construction.

InitArgs ==
    [account : Accounts, password : Passwords, area : Areas,
     no_login : BOOLEAN, lazy_login : BOOLEAN,
     cookies : {None, EmptyJar, SuppliedJar}]

\* the constructor's parameters are gone once it has returned or raised
NoArgs ==
    [account |-> "", password |-> "", area |-> "", no_login |-> FALSE,
     lazy_login |-> FALSE, cookies |-> None]

InitWith(cs) ==
    /\ args \in InitArgs
    /\ phase = "new"
    /\ _cookies = None /\ _lock = "free" /\ _account = "" /\ _password = ""
    /\ _area = "" /\ _no_login = FALSE /\ _ua = ""
    /\ callers = cs
    /\ pc = [t \in Threads |-> "idle"]
    /\ stage = [t \in Threads |-> "none"]
    /\ op = [t \in Threads |-> ""]
    /\ arg = [t \in Threads |-> 0]
    /\ req = [t \in Threads |-> NoReq]
    /\ logline = [t \in Threads |-> NoLog]
    /\ arr = [t \in Threads |-> <<>>]
    /\ prev = [t \in Threads |-> 0]
    /\ outcome = [t \in Threads |-> NoOutcome]
    /\ trace = [t \in Threads |-> <<>>]
    /\ served = [t \in Threads |-> <<>>]
    /\ cursors = [t \in Threads |-> <<>>]
    /\ srvMsg = [t \in Threads |-> ""]
    /\ jars = [t \in Threads |-> <<>>]
    /\ nlogins = 0

\* one thread uses the client
Init == InitWith({Main})

\* a constructor that forgets lazy_login
ConstructorLogsIn_ignoring_lazy(a) ==
    ~Truthy(a.cookies) /\ ~a.no_login

\* __init__ lines 62-68: whether the constructor goes on to reset_session
ConstructorLogsIn(a) ==
    ~Truthy(a.cookies) /\ ~(a.lazy_login \/ a.no_login)

\* __init__ lines 54, 62-63: the session the constructor leaves before any login
ConstructorCookies(a) == IF Truthy(a.cookies) THEN a.cookies ELSE None

__init__ ==
    /\ phase = "new"
    /\ _cookies' = ConstructorCookies(args)
    /\ _lock' = "free"
    /\ _account' = args.account
    /\ _password' = args.password
    /\ _area' = args.area
    /\ _no_login' = args.no_login
    /\ \E u \in UserAgents : _ua' = u
    /\ IF ConstructorLogsIn(args)
         THEN /\ phase' = "constructing"
              /\ pc' = [pc EXCEPT ![Main] = "lock_wait"]
              /\ stage' = [stage EXCEPT ![Main] = "ctor"]
              /\ args' = args
         ELSE /\ phase' = "ready"
              /\ args' = NoArgs
              /\ UNCHANGED <<pc, stage>>
    /\ UNCHANGED <<callers, op, arg, req, logline, arr, prev, outcome,
                   trace, served, cursors, srvMsg, jars, nlogins>>

----------------------------------------------------------------------------
\* _post.

\* a redaction that forgets the account
Redact_password_only(data) ==
    [k \in DOMAIN data |->
        IF k \in {"password"} THEN JStr("xxx") ELSE data[k]]

\* _post lines 72-74: the credential fields of data are overwritten in place
Redact(data) ==
    [k \in DOMAIN data |->
        IF k \in {"cellphone", "password"} THEN JStr("xxx") ELSE data[k]]

\* _post line 75: the payload that is formatted into the log line
LoggedData(data) == Redact(data)

\* _post line 82: json=data, the same dict the loop above has written to
WireData(data) == Redact(data)

\* _post lines 70-82, up to the request going out
PostSend(t, url, data, cookies, ua) ==
    /\ logline' = [logline EXCEPT ![t] = [url |-> url, data |-> LoggedData(data)]]
    /\ req' = [req EXCEPT ![t] =
                 [url |-> url, body |-> WireData(data), ua |-> ua,
                  cookies |-> cookies]]

\* _post lines 82-86: what a response makes _post do. A transport failure
\* (line 82) or a non-2xx status (line 83) raises a RequestException; an
\* envelope with code != 0 raises GkApiError with the server's message.
\* line 86: the message of the GkApiError raised for a code != 0 envelope
ApiFailMessage(m) == "geektime api fail:" \o m

TransportErrors ==
    IF Concurrent THEN {"ConnectionError"} ELSE {"ConnectionError", "HTTPError"}
Failures ==
    {[exc |-> e, msg |-> "", srv |-> ""] : e \in TransportErrors}
      \cup {[exc |-> "GkApiError", msg |-> ApiFailMessage(m), srv |-> m] :
              m \in Msgs}

FailEvent(kind, f) ==
    IF IsRequestException(f.exc) THEN kind \o "_fail_transport"
    ELSE kind \o "_fail_api"

----------------------------------------------------------------------------
\* _retry.

\* a wrapper that retries as long as the transport fails
wrap_except_retry_again(st, e, m) ==
    IF IsRequestException(e)
      THEN [next |-> "relogin", out |-> NoOutcome]
    ELSE IF st = "first" /\ ~IsGkApiError(e)
      THEN [next |-> "raise",
            out |-> Raised("GkApiError", "geektime api error", e)]
    ELSE [next |-> "raise", out |-> Raised(e, m, "")]

\* a wrapper that also retries a GkApiError
wrap_except_retry_api(st, e, m) ==
    IF st = "first"
      THEN IF IsRequestException(e) \/ IsGkApiError(e)
             THEN [next |-> "relogin", out |-> NoOutcome]
           ELSE [next |-> "raise",
                 out |-> Raised("GkApiError", "geektime api error", e)]
      ELSE [next |-> "raise", out |-> Raised(e, m, "")]

\* a wrapper whose catch-all also covers the forced re-login
wrap_except_relogin_wrapped(st, e, m) ==
    IF st = "first"
      THEN IF IsRequestException(e)
             THEN [next |-> "relogin", out |-> NoOutcome]
           ELSE IF IsGkApiError(e)
             THEN [next |-> "raise", out |-> Raised(e, m, "")]
           ELSE [next |-> "raise",
                 out |-> Raised("GkApiError", "geektime api error", e)]
    ELSE IF st = "relogin" /\ ~IsGkApiError(e)
      THEN [next |-> "raise",
            out |-> Raised("GkApiError", "geektime api error", e)]
    ELSE [next |-> "raise", out |-> Raised(e, m, "")]

\* wrap lines 30-40: what the wrapper does with an exception e (message m)
\* raised at stage st. An exception raised inside the except clause of line 33
\* (by reset_session or by the second call of func) is not handled by the
\* clauses of lines 37 and 39.
wrap_except(st, e, m) ==
    IF st = "first"
      THEN IF IsRequestException(e)
             THEN [next |-> "relogin", out |-> NoOutcome]
           ELSE IF IsGkApiError(e)
             THEN [next |-> "raise", out |-> Raised(e, m, "")]
           ELSE [next |-> "raise",
                 out |-> Raised("GkApiError", "geektime api error", e)]
      ELSE [next |-> "raise", out |-> Raised(e, m, "")]

\* an exception e leaves the code thread t is running
Throw(t, e, m) ==
    IF stage[t] = "ctor"
      THEN /\ phase' = "failed"
           /\ args' = NoArgs
           /\ pc' = [pc EXCEPT ![t] = "idle"]
           /\ stage' = [stage EXCEPT ![t] = "none"]
           /\ outcome' = [outcome EXCEPT ![t] = Raised(e, m, "")]
      ELSE LET h == wrap_except(stage[t], e, m) IN
           /\ phase' = phase
           /\ args' = args
           /\ IF h.next = "relogin"
                THEN /\ pc' = [pc EXCEPT ![t] = "lock_wait"]
                     /\ stage' = [stage EXCEPT ![t] = "relogin"]
                     /\ outcome' = outcome
                ELSE /\ pc' = [pc EXCEPT ![t] = "done"]
                     /\ stage' = stage
                     /\ outcome' = [outcome EXCEPT ![t] = h.out]

Log(t, ev) == trace' = [trace EXCEPT ![t] = Append(@, ev)]
Log2(t, e1, e2) == trace' = [trace EXCEPT ![t] = Append(Append(@, e1), e2)]
\* the session c is written down: the one in use when the first attempt
\* failed on the transport, or the one the forced re-login produced
Saw(t, ev, c) ==
    jars' = [jars EXCEPT ![t] = Append(@, [ev |-> ev, stage |-> stage[t], cookies |-> c])]
SawLogin(t, c) ==
    IF stage[t] = "relogin" THEN Saw(t, "relogin", c) ELSE jars' = jars
SawFailure(t, e, c) ==
    IF stage[t] = "first" /\ IsRequestException(e)
      THEN Saw(t, "failed", c)
      ELSE jars' = jars

----------------------------------------------------------------------------
\* reset_session.

\* utils.synchronized: the decorated method runs with the client's lock held
Acquire(t) == _lock = "free" /\ _lock' = t
Release(t) == _lock' = "free"

\* reset_session without its decorator
reset_session_enter_unsynchronized(t) == _lock' = t

\* a wrapper that returns without releasing the lock
reset_session_exit_holding(t) == _lock' = t

\* line 90: reset_session is declared @synchronized()
reset_session_enter(t) == Acquire(t)
reset_session_exit(t) == Release(t)

\* a login whose cookies are added to the session in place
resp_cookies_merged(old, c) ==
    [set |-> TRUE, items |-> old.items \cup c.items, by |-> c.by]

\* a login that leaves a session in place alone
resp_cookies_kept(old, c) == IF Truthy(old) THEN old ELSE c

\* line 115: self._cookies = resp.cookies, c being the jar of the login's
\* response and old the session in place before the assignment
resp_cookies(old, c) == c

\* lines 90-113: take the lock, pick a user agent, build the body, _post it
reset_session_begin(t) ==
    /\ pc[t] = "lock_wait"
    /\ reset_session_enter(t)
    /\ \E u \in UserAgents :
         /\ _ua' = u
         /\ PostSend(t, UrlLogin, LoginData, None, u)
    /\ pc' = [pc EXCEPT ![t] = "login_inflight"]
    /\ Log(t, "login_req")
    /\ UNCHANGED <<args, phase, _cookies, _account, _password, _area, _no_login,
                   callers, stage, op, arg, arr, prev, outcome, served, cursors,
                   srvMsg, jars, nlogins>>

\* lines 113-115 with a successful response: the session is replaced and the
\* caller of reset_session goes on
reset_session_ok(t) ==
    /\ pc[t] = "login_inflight"
    /\ nlogins' = nlogins + 1
    /\ \E c \in LoginJars(nlogins') : _cookies' = resp_cookies(_cookies, c)
    /\ reset_session_exit(t)
    /\ req' = [req EXCEPT ![t] = NoReq]
    /\ logline' = [logline EXCEPT ![t] = NoLog]
    /\ Log(t, "login_ok")
    /\ SawLogin(t, _cookies')
    /\ CASE stage[t] = "ctor" ->
              /\ phase' = "ready"
              /\ args' = NoArgs
              /\ pc' = [pc EXCEPT ![t] = "idle"]
              /\ stage' = [stage EXCEPT ![t] = "none"]
         [] stage[t] = "relogin" ->
              /\ phase' = phase
              /\ args' = args
              /\ pc' = [pc EXCEPT ![t] = "body"]
              /\ stage' = [stage EXCEPT ![t] = "replay"]
         [] OTHER ->
              /\ phase' = phase
              /\ args' = args
              /\ pc' = [pc EXCEPT ![t] = "post"]
              /\ stage' = stage
    /\ UNCHANGED <<_account, _password, _area, _no_login, _ua, callers,
                   op, arg, arr, prev, outcome, served, cursors, srvMsg>>

\* line 113 raising: the lock is released and the exception leaves reset_session
reset_session_fail(t) ==
    /\ pc[t] = "login_inflight"
    /\ \E f \in Failures :
         /\ Throw(t, f.exc, f.msg)
         /\ Log(t, FailEvent("login", f))
         /\ srvMsg' = [srvMsg EXCEPT ![t] = f.srv]
         /\ SawFailure(t, f.exc, _cookies)
    /\ reset_session_exit(t)
    /\ req' = [req EXCEPT ![t] = NoReq]
    /\ logline' = [logline EXCEPT ![t] = NoLog]
    /\ UNCHANGED <<_cookies, _account, _password, _area, _no_login, _ua,
                   callers, op, arg, arr, prev, served, cursors, nlogins>>

----------------------------------------------------------------------------
\* The read operations.

\* the data field of a successful envelope: a falsy value (null, {} or []),
\* or an object with a list (and, for a comment page, the page.more flag).
\* `present` is the value's truthiness, `shape` its JSON type.
NullData == [present |-> FALSE, shape |-> "null", list |-> <<>>, more |-> FALSE]
EmptyObject == [present |-> FALSE, shape |-> "object", list |-> <<>>, more |-> FALSE]
EmptyArray == [present |-> FALSE, shape |-> "array", list |-> <<>>, more |-> FALSE]
FalsyDatas == IF Concurrent THEN {NullData} ELSE {NullData, EmptyObject, EmptyArray}
ReadDatas ==
    FalsyDatas \cup
    {[present |-> TRUE, shape |-> "object", list |-> l, more |-> FALSE] :
        l \in SeqsUpTo(Posts, ListLen)}
\* a comment, with its score or without one
Comments ==
    {[has_score |-> TRUE, score |-> s] : s \in Scores}
      \cup (IF Concurrent THEN {} ELSE {[has_score |-> FALSE, score |-> 0]})
\* the pages the server may answer after the pages `before` of this attempt
RECURSIVE CommentsIn(_)
CommentsIn(pages) ==
    IF pages = <<>> THEN 0 ELSE Len(Head(pages).list) + CommentsIn(Tail(pages))
PageDatas(before) ==
    FalsyDatas \cup
    {[present |-> TRUE, shape |-> "object", list |-> l, more |-> m] :
        l \in SeqsUpTo(Comments, CommentsCap - CommentsIn(before)),
        m \in (IF Len(before) + 1 < Pages THEN BOOLEAN ELSE {FALSE})}

Ok(v) == [exc |-> "", msg |-> "", val |-> v]
Err(e, m) == [exc |-> e, msg |-> m, val |-> <<>>]

\* Python's range(a, b) as a list
range(a, b) == [i \in 1..(b - a) |-> a + i - 1]

\* Python's list[i]: a negative index counts from the end
PyIndexOk(l, i) ==
    LET j == IF i < 0 THEN i + Len(l) ELSE i IN j >= 0 /\ j < Len(l)
PyIndex(l, i) == l[(IF i < 0 THEN i + Len(l) ELSE i) + 1]

\* lines 132, 149, 167, 188, 206, 233, 261: the lazy-login condition
NeedsLogin(cookies, no_login) == ~Truthy(cookies) /\ ~no_login

\* line 136
get_course_list_result(data) == Ok(data)

\* a result that keeps the server's order
get_post_list_of_result_unreversed(data, id) ==
    IF ~data.present
      THEN Err("Exception", "course not exists:" \o str(id))
      ELSE Ok(data.list)

\* lines 154-157
get_post_list_of_result(data, id) ==
    IF ~data.present
      THEN Err("Exception", "course not exists:" \o str(id))
      ELSE Ok(Reverse(data.list))

\* lines 174-177 (the message is the source's, transliterated)
get_course_intro_result(data, id) ==
    IF ~data.present
      THEN Err("GkApiError", "invalid course ID: " \o str(id))
      ELSE Ok(data)

\* line 195
get_post_content_result(data) == Ok(data)

\* lines 241-242
get_video_collection_intro_result(data) == Ok(data)

\* lines 217 and 269: Python's data['list']. null and [] do not take a string
\* subscript, {} has no such key.
data_list(data) ==
    CASE data.shape = "null" ->
           Err("TypeError", "'NoneType' object is not subscriptable")
      [] data.shape = "array" ->
           Err("TypeError", "list indices must be integers or slices, not str")
      [] data.shape = "object" /\ ~data.present -> Err("KeyError", "'list'")
      [] OTHER -> Ok(data.list)

\* line 269
get_video_list_of_result(data) == data_list(data)

\* ranges whose upper ends are taken as inclusive
video_collection_ids_short == range(3, 81) \o range(104, 140)

\* lines 248-249
video_collection_ids == range(3, 82) \o range(104, 141)
get_video_collection_list_result ==
    Ok([i \in 1..Len(video_collection_ids) |->
          [collection_id |-> video_collection_ids[i]]])

ResultOf(o, data, id) ==
    CASE o = "get_course_list" -> get_course_list_result(data)
      [] o = "get_post_list_of" -> get_post_list_of_result(data, id)
      [] o = "get_course_intro" -> get_course_intro_result(data, id)
      [] o = "get_post_content" -> get_post_content_result(data)
      [] o = "get_video_collection_intro" -> get_video_collection_intro_result(data)
      [] o = "get_video_list_of" -> get_video_list_of_result(data)

\* wrap line 29: a caller enters the decorated operation
StartCall(t, o, id) ==
    /\ phase = "ready"
    /\ t \in callers
    /\ pc[t] = "idle"
    /\ o \in Calls(t)
    /\ nlogins < MaxLogins
    /\ pc' = [pc EXCEPT ![t] = "body"]
    /\ stage' = [stage EXCEPT ![t] = "first"]
    /\ op' = [op EXCEPT ![t] = o]
    /\ arg' = [arg EXCEPT ![t] = id]
    /\ outcome' = [outcome EXCEPT ![t] = NoOutcome]
    /\ trace' = [trace EXCEPT ![t] = <<>>]
    /\ srvMsg' = [srvMsg EXCEPT ![t] = ""]
    /\ jars' = [jars EXCEPT ![t] = <<>>]
    /\ UNCHANGED <<args, phase, client, callers, req, logline, arr, prev,
                   served, cursors, nlogins>>

get_course_list(t) == StartCall(t, "get_course_list", 0)
get_post_list_of(t) == \E id \in Ids : StartCall(t, "get_post_list_of", id)
get_course_intro(t) == \E id \in Ids : StartCall(t, "get_course_intro", id)
get_post_content(t) == \E id \in Ids : StartCall(t, "get_post_content", id)
get_post_comments(t) == \E id \in Ids : StartCall(t, "get_post_comments", id)
get_video_collection_intro(t) ==
    \E id \in Ids : StartCall(t, "get_video_collection_intro", id)
get_video_collection_list(t) == StartCall(t, "get_video_collection_list", 0)
get_video_list_of(t) == \E id \in Ids : StartCall(t, "get_video_list_of", id)

\* a body that goes on from what its previous run left
comments_locals_resumed(a, p) == [arr |-> a, prev |-> p]

\* lines 208-209: arr = [] and prev = 0 at the start of get_post_comments'
\* body, whatever a previous run of the body left in a and p
comments_locals(a, p) == [arr |-> <<>>, prev |-> 0]

\* wrap lines 31 and 36 calling func, and func's lazy-login check; for
\* get_post_comments also lines 208-210
check_session(t) ==
    /\ pc[t] = "body"
    /\ op[t] \in NetworkOps
    /\ pc' = [pc EXCEPT ![t] =
                IF NeedsLogin(_cookies, _no_login) THEN "lock_wait" ELSE "post"]
    /\ arr' = [arr EXCEPT ![t] = comments_locals(arr[t], prev[t]).arr]
    /\ prev' = [prev EXCEPT ![t] = comments_locals(arr[t], prev[t]).prev]
    /\ served' = [served EXCEPT ![t] = <<>>]
    /\ cursors' = [cursors EXCEPT ![t] = <<>>]
    /\ Log(t, "body")
    /\ UNCHANGED <<args, phase, client, callers, stage, op, arg, req, logline,
                   outcome, srvMsg, jars, nlogins>>

\* lines 245-249: no request, no session check
video_collection_list_body(t) ==
    /\ pc[t] = "body"
    /\ op[t] = "get_video_collection_list"
    /\ pc' = [pc EXCEPT ![t] = "done"]
    /\ outcome' = [outcome EXCEPT ![t] = Returned(get_video_collection_list_result.val)]
    /\ Log(t, "body")
    /\ UNCHANGED <<args, phase, client, callers, stage, op, arg, req, logline,
                   arr, prev, served, cursors, srvMsg, jars, nlogins>>

\* the operation's self._post(url, data, headers=headers, cookies=self._cookies)
send_read(t) ==
    /\ pc[t] = "post"
    /\ PostSend(t, UrlOf(op[t]), PayloadOf(op[t], arg[t], prev[t]), _cookies, _ua)
    /\ pc' = [pc EXCEPT ![t] = "read_inflight"]
    /\ cursors' = [cursors EXCEPT ![t] = Append(@, prev[t])]
    /\ Log(t, "read_req")
    /\ UNCHANGED <<args, phase, client, callers, stage, op, arg, arr, prev,
                   outcome, served, srvMsg, jars, nlogins>>

\* _post raising on the read request's response
recv_fail(t) ==
    /\ pc[t] = "read_inflight"
    /\ \E f \in Failures :
         /\ Throw(t, f.exc, f.msg)
         /\ Log(t, FailEvent("read", f))
         /\ srvMsg' = [srvMsg EXCEPT ![t] = f.srv]
         /\ SawFailure(t, f.exc, req[t].cookies)
    /\ req' = [req EXCEPT ![t] = NoReq]
    /\ logline' = [logline EXCEPT ![t] = NoLog]
    /\ UNCHANGED <<client, callers, op, arg, arr, prev, served, cursors,
                   nlogins>>

\* a successful envelope for one of the single-request operations
recv_data(t, o) ==
    /\ pc[t] = "read_inflight"
    /\ op[t] = o
    /\ \E data \in ReadDatas :
         LET r == ResultOf(o, data, arg[t]) IN
         /\ served' = [served EXCEPT ![t] = Append(@, data)]
         /\ IF r.exc = ""
              THEN /\ pc' = [pc EXCEPT ![t] = "done"]
                   /\ outcome' = [outcome EXCEPT ![t] = Returned(r.val)]
                   /\ Log(t, "read_ok")
                   /\ UNCHANGED <<args, phase, stage>>
              ELSE /\ Throw(t, r.exc, r.msg)
                   /\ Log2(t, "read_ok", "raise_" \o r.exc)
    /\ req' = [req EXCEPT ![t] = NoReq]
    /\ logline' = [logline EXCEPT ![t] = NoLog]
    /\ UNCHANGED <<client, callers, op, arg, arr, prev, cursors,
                   srvMsg, jars, nlogins>>

\* line 220: the cursor for the next page, list[len(list)-1]['score']
NextCursorOk(list) == PyIndex(list, Len(list) - 1).has_score
NextCursor(list) == PyIndex(list, Len(list) - 1).score

\* lines 216-222: one turn of get_post_comments' loop on a successful envelope
recv_page(t) ==
    /\ pc[t] = "read_inflight"
    /\ op[t] = "get_post_comments"
    /\ \E data \in PageDatas(served[t]) :
         /\ served' = [served EXCEPT ![t] = Append(@, data)]
         /\ IF data_list(data).exc # ""
              THEN \* line 217: data['list'] of a falsy data
                   /\ Throw(t, data_list(data).exc, data_list(data).msg)
                   /\ Log2(t, "read_ok", "raise_" \o data_list(data).exc)
                   /\ UNCHANGED <<arr, prev>>
            ELSE IF ~PyIndexOk(data.list, Len(data.list) - 1)
              THEN \* line 220 on an empty list
                   /\ arr' = [arr EXCEPT ![t] = Append(@, data.list)]
                   /\ Throw(t, "IndexError", "list index out of range")
                   /\ Log2(t, "read_ok", "raise_IndexError")
                   /\ UNCHANGED prev
            ELSE IF ~NextCursorOk(data.list)
              THEN \* line 220 on a last comment without a score
                   /\ arr' = [arr EXCEPT ![t] = Append(@, data.list)]
                   /\ Throw(t, "KeyError", "'score'")
                   /\ Log2(t, "read_ok", "raise_KeyError")
                   /\ UNCHANGED prev
            ELSE /\ arr' = [arr EXCEPT ![t] = Append(@, data.list)]
                 /\ prev' = [prev EXCEPT ![t] = NextCursor(data.list)]
                 /\ Log(t, "read_ok")
                 /\ UNCHANGED <<args, phase, stage>>
                 /\ IF data.more = TRUE
                      THEN /\ pc' = [pc EXCEPT ![t] = "post"]
                           /\ UNCHANGED outcome
                      ELSE /\ pc' = [pc EXCEPT ![t] = "done"]
                           /\ outcome' = [outcome EXCEPT ![t] = Returned(arr'[t])]
    /\ req' = [req EXCEPT ![t] = NoReq]
    /\ logline' = [logline EXCEPT ![t] = NoLog]
    /\ UNCHANGED <<client, callers, op, arg, cursors, srvMsg, jars, nlogins>>

\* wrap lines 32, 36, 38, 40: the result or the exception reaches the caller
wrap_exit(t) ==
    /\ pc[t] = "done"
    /\ pc' = [pc EXCEPT ![t] = "idle"]
    /\ stage' = [stage EXCEPT ![t] = "none"]
    /\ op' = [op EXCEPT ![t] = ""]
    /\ arg' = [arg EXCEPT ![t] = 0]
    /\ arr' = [arr EXCEPT ![t] = <<>>]
    /\ prev' = [prev EXCEPT ![t] = 0]
    /\ outcome' = [outcome EXCEPT ![t] = NoOutcome]
    /\ trace' = [trace EXCEPT ![t] = <<>>]
    /\ served' = [served EXCEPT ![t] = <<>>]
    /\ cursors' = [cursors EXCEPT ![t] = <<>>]
    /\ srvMsg' = [srvMsg EXCEPT ![t] = ""]
    /\ jars' = [jars EXCEPT ![t] = <<>>]
    /\ UNCHANGED <<args, phase, client, callers, req, logline, nlogins>>

----------------------------------------------------------------------------

Next ==
    \/ __init__
    \/ \E t \in Threads :
         \/ reset_session_begin(t)
         \/ reset_session_ok(t)
         \/ reset_session_fail(t)
         \/ get_course_list(t)
         \/ get_post_list_of(t)
         \/ get_course_intro(t)
         \/ get_post_content(t)
         \/ get_post_comments(t)
         \/ get_video_collection_intro(t)
         \/ get_video_collection_list(t)
         \/ get_video_list_of(t)
         \/ check_session(t)
         \/ video_collection_list_body(t)
         \/ send_read(t)
         \/ recv_fail(t)
         \/ \E o \in NetworkOps \ {"get_post_comments"} : recv_data(t, o)
         \/ recv_page(t)
         \/ wrap_exit(t)

Spec == Init /\ [][Next]_vars

\* every thread uses the client
InitMT == InitWith(Threads)
SpecMT == InitMT /\ [][Next]_vars

\* Every thread uses a client constructed with lazy_login and no session, so
\* that the threads' first calls meet at the login lock. A thread inside the
\* client keeps running: a step of it that stays possible is taken. Line 82
\* posts with timeout=10, so every request is answered, by a response or by
\* an exception. A thread waiting for the lock takes it when the lock stays
\* free; the lock promises no order among its waiters, so a waiter that finds
\* it taken again each time it looks has no claim on it. Nothing obliges a
\* caller to start a call.
InitLive ==
    /\ InitWith(Threads)
    /\ args.lazy_login /\ ~args.no_login /\ args.cookies = None
Proceed(t) ==
    \/ reset_session_begin(t)
    \/ reset_session_ok(t)
    \/ reset_session_fail(t)
    \/ check_session(t)
    \/ video_collection_list_body(t)
    \/ send_read(t)
    \/ recv_fail(t)
    \/ \E o \in NetworkOps \ {"get_post_comments"} : recv_data(t, o)
    \/ recv_page(t)
    \/ wrap_exit(t)
Fairness == \A t \in Threads : WF_vars(Proceed(t))
SpecLive == InitLive /\ [][Next]_vars /\ Fairness

----------------------------------------------------------------------------
\* Reading a call's trace.

FailEvents ==
    {"login_fail_transport", "login_fail_api", "read_fail_transport",
     "read_fail_api", "raise_Exception", "raise_GkApiError", "raise_TypeError",
     "raise_IndexError", "raise_KeyError"}
TransportEvents == {"login_fail_transport", "read_fail_transport"}
ApiFailEvents == {"login_fail_api", "read_fail_api"}

Count(s, e) == Cardinality({i \in DOMAIN s : s[i] = e})

\* the index of the first failure in s, 0 when there is none
FirstFailure(s) ==
    IF \E i \in DOMAIN s : s[i] \in FailEvents
      THEN CHOOSE i \in DOMAIN s :
             s[i] \in FailEvents /\ \A j \in 1..(i - 1) : s[j] \notin FailEvents
      ELSE 0

\* thread t is inside a call of a read operation (not the constructor)
InCall(t) == pc[t] # "idle" /\ stage[t] # "ctor"

LoginRequestOnWire == \E t \in Threads : req[t].url = UrlLogin

----------------------------------------------------------------------------
\* C1: a client constructed with no_login = true and no session never issues
\* a login request and its _cookies stays unset.
C1_NoLoginNeverLogsIn ==
    /\ []((phase = "ready" /\ _no_login /\ _cookies = None) => ~LoginRequestOnWire)
    /\ [][(phase = "ready" /\ _no_login /\ _cookies = None) =>
            _cookies' = None]_vars

\* C2 as stated: when the first attempt fails with a transport failure, the
\* operation is replayed exactly once (its body has run exactly twice when the
\* call ends).
C2_ExactlyOneReplay ==
    \A t \in Threads :
        LET s == trace[t]  i == FirstFailure(s) IN
        (InCall(t) /\ pc[t] = "done" /\ i > 0 /\ s[i] \in TransportEvents)
            => Count(s, "body") = 2

\* C2 as amended: when the first attempt fails with a transport failure, a login
\* is attempted next; the operation is replayed exactly once if that login
\* succeeds and not at all if it fails; the body never runs more than twice; a
\* transport failure of the replay reaches the caller as it is.
C2_ReplayOnceAfterRelogin ==
    \A t \in Threads :
        LET s == trace[t]  i == FirstFailure(s) IN
        /\ Count(s, "body") <= 2
        /\ (InCall(t) /\ pc[t] = "done" /\ i > 0 /\ s[i] \in TransportEvents) =>
             /\ Len(s) >= i + 2
             /\ s[i + 1] = "login_req"
             /\ IF s[i + 2] = "login_ok"
                  THEN Count(s, "body") = 2 /\ s[i + 3] = "body"
                  ELSE Count(s, "body") = 1 /\ Len(s) = i + 2
             /\ (Len(s) > i + 2 /\ s[Len(s)] \in TransportEvents) =>
                  /\ outcome[t].kind = "raise"
                  /\ IsRequestException(outcome[t].exc)
                  /\ outcome[t].cause = ""

\* a call whose first attempt and whose replay both failed on the transport
C2_Witness ==
    \E t \in Threads :
        /\ pc[t] = "done" /\ stage[t] = "replay"
        /\ Count(trace[t], "body") = 2
        /\ trace[t][Len(trace[t])] = "read_fail_transport"
        /\ IsRequestException(outcome[t].exc)

\* C3: once an envelope with code != 0 is received in a call (by the read
\* request or by a login of the call), the call has failed with a GkApiError
\* carrying the server's message and nothing follows: no login, no replay.
C3_ApiErrorNotRetried ==
    \A t \in Threads :
        InCall(t) =>
            \A i \in DOMAIN trace[t] :
                trace[t][i] \in ApiFailEvents =>
                    /\ i = Len(trace[t])
                    /\ pc[t] = "done"
                    /\ outcome[t].kind = "raise"
                    /\ outcome[t].exc = "GkApiError"
                    /\ outcome[t].msg = "geektime api fail:" \o srvMsg[t]
                    /\ srvMsg[t] \in Msgs

\* a first attempt whose read request was answered with code != 0
C3_Witness ==
    \E t \in Threads :
        /\ pc[t] = "done" /\ stage[t] = "first"
        /\ trace[t][Len(trace[t])] = "read_fail_api"
        /\ srvMsg[t] = "busy"
        /\ Count(trace[t], "body") = 1

\* C4: the body of every login request on the wire carries the credentials
\* given at construction.
C4_LoginBodyCarriesCredentials ==
    \A t \in Threads :
        req[t].url = UrlLogin =>
            /\ req[t].body["cellphone"] = JStr(_account)
            /\ req[t].body["password"] = JStr(_password)
            /\ req[t].body["country"] = JStr(_area)

\* C5: no field of a logged payload is the account or the password given at
\* construction, for the login request and for every read request.
C5_LogNeverHoldsCredentials ==
    \A t \in Threads :
        logline[t] # NoLog =>
            \A k \in DOMAIN logline[t].data :
                logline[t].data[k] \notin {JStr(_account), JStr(_password)}

\* the login request has been logged
C5_Witness ==
    \E t \in Threads :
        /\ logline[t].url = UrlLogin
        /\ "cellphone" \in DOMAIN logline[t].data
        /\ _account = "13800000000"

\* the pages of this attempt are all there: each is a page, the last one says
\* more = false
PagesComplete(t) ==
    /\ op[t] = "get_post_comments"
    /\ served[t] # <<>>
    /\ \A i \in DOMAIN served[t] : served[t][i].present
    /\ ~served[t][Len(served[t])].more

LastScore(l) == IF l = <<>> THEN 0 ELSE l[Len(l)].score

\* C6: when the server has answered P1..Pn (more = true on all but Pn), the
\* cursors sent were 0 and then the score of the last comment of the page
\* before, and the call returns [P1.list, ..., Pn.list].
C6_PagesInOrder ==
    \A t \in Threads :
        PagesComplete(t) =>
            /\ cursors[t] = [i \in 1..Len(served[t]) |->
                               IF i = 1 THEN 0 ELSE LastScore(served[t][i - 1].list)]
            /\ outcome[t].kind = "return"
            /\ outcome[t].val = [i \in 1..Len(served[t]) |-> served[t][i].list]

\* C7: when a page with more = false has been received, whatever its list, no
\* further request is issued and the call returns the accumulated pages.
C7_StopsWhenNoMore ==
    \A t \in Threads :
        (op[t] = "get_post_comments" /\ served[t] # <<>>
           /\ served[t][Len(served[t])].present
           /\ ~served[t][Len(served[t])].more) =>
            /\ pc[t] = "done"
            /\ req[t] = NoReq
            /\ outcome[t].kind = "return"
            /\ Len(outcome[t].val) = Len(served[t])

\* the constructor logs in exactly when no session is supplied and neither
\* no_login nor lazy_login is set
C8_LoginDue ==
    ~Truthy(args.cookies) /\ ~args.no_login /\ ~args.lazy_login

\* C8: a supplied session is adopted without a login; otherwise the
\* constructor logs in exactly when no_login and lazy_login are both false,
\* issuing one login request; with no_login (and no session) nothing is sent
\* and the session stays absent.
C8_Construction ==
    /\ [](phase = "constructing" => C8_LoginDue)
    /\ [][phase = "new" =>
            /\ (phase' = "constructing") = C8_LoginDue
            /\ (phase' = "ready") = ~C8_LoginDue
            /\ _cookies' = (IF Truthy(args.cookies) THEN args.cookies ELSE None)
            /\ _no_login' = args.no_login
            /\ \A t \in Threads : req'[t] = NoReq]_vars
    /\ [][(phase = "constructing" /\ phase' # "constructing") =>
            Count(trace'[Main], "login_req") = 1]_vars
    /\ [][(phase = "constructing" /\ phase' = "ready") =>
            _cookies'.set /\ _cookies'.by = 1 /\ nlogins' = 1]_vars

\* the constructor's login request is on the wire
C8_Witness ==
    /\ phase = "constructing"
    /\ req[Main].url = UrlLogin
    /\ ~args.no_login /\ ~args.lazy_login

\* C9: at most one thread is inside reset_session at any moment, and it holds
\* the lock.
C9_OneLoginAtATime ==
    /\ Cardinality({t \in Threads : pc[t] = "login_inflight"}) <= 1
    /\ \A t \in Threads : pc[t] = "login_inflight" => _lock = t

\* one thread logs in while the other waits for the lock
C9_Witness ==
    \E t, u \in Threads :
        /\ t # u /\ pc[t] = "login_inflight" /\ pc[u] = "lock_wait"
        /\ phase = "ready"

\* C10: get_video_collection_list returns one entry per identifier of
\* {3..81} \cup {104..140}, 116 in all, and sends nothing.
C10_VideoCollectionList ==
    \A t \in Threads :
        op[t] = "get_video_collection_list" =>
            /\ pc[t] \in {"body", "done"}
            /\ req[t] = NoReq
            /\ pc[t] = "done" =>
                 /\ trace[t] = <<"body">>
                 /\ outcome[t].kind = "return"
                 /\ Len(outcome[t].val) = 116
                 /\ {outcome[t].val[i].collection_id : i \in 1..Len(outcome[t].val)}
                      = (3..81) \cup (104..140)

\* the list was returned by a client that has no session and may log in
C10_Witness ==
    \E t \in Threads :
        /\ op[t] = "get_video_collection_list" /\ pc[t] = "done"
        /\ _cookies = None /\ ~_no_login

\* C11: when the server answers get_post_list_of with a non-empty data whose
\* list is [p1, ..., pN], the call returns [pN, ..., p1]: the same length, the
\* element at position i being the server's element at position N + 1 - i.
C11_PostListReversed ==
    \A t \in Threads :
        (op[t] = "get_post_list_of" /\ served[t] # <<>> /\ served[t][1].present) =>
            LET l == served[t][1].list  N == Len(served[t][1].list) IN
            /\ pc[t] = "done"
            /\ outcome[t].kind = "return"
            /\ Len(outcome[t].val) = N
            /\ \A i \in 1..N : outcome[t].val[i] = l[N + 1 - i]

\* a list of two different posts has been returned
C11_Witness ==
    \E t \in Threads :
        /\ op[t] = "get_post_list_of" /\ pc[t] = "done"
        /\ served[t] # <<>> /\ served[t][1].list = <<1, 2>>
        /\ outcome[t].val = <<2, 1>>

\* the exceptions the model raises that are neither a RequestException nor a
\* GkApiError
UnexpectedErrors == {"Exception", "TypeError", "IndexError", "KeyError"}

\* C12: a call that fails fails with a RequestException or a GkApiError, and
\* when what was raised last in the body is an unexpected exception X (on the
\* first attempt or on the replay) the caller gets a GkApiError whose cause
\* is X.
C12_UnexpectedWrapped ==
    \A t \in Threads :
        (InCall(t) /\ pc[t] = "done" /\ outcome[t].kind = "raise") =>
            /\ IsRequestException(outcome[t].exc) \/ IsGkApiError(outcome[t].exc)
            /\ \A x \in UnexpectedErrors :
                 trace[t][Len(trace[t])] = "raise_" \o x =>
                     /\ outcome[t].exc = "GkApiError"
                     /\ outcome[t].msg = "geektime api error"
                     /\ outcome[t].cause = x

ReadRequestOnWire(t) == req[t].url \notin {"", UrlLogin}
LoginFailEvents == {"login_fail_transport", "login_fail_api"}

\* C13: with no_login = false, (1) every read request on the wire carries a
\* session (a jar that holds cookies); (2) a body that starts while the
\* session is absent goes to the login, sending nothing; (3) the only way from
\* there to the read request is a login that has succeeded and left a
\* session; (4) when that login fails the attempt is over (the call fails, or
\* goes to the forced re-login) and its read request is not sent.
C13_ReadNeedsSession ==
    /\ [](\A t \in Threads :
            (ReadRequestOnWire(t) /\ ~_no_login) => Truthy(req[t].cookies))
    /\ [][\A t \in Threads :
            (pc[t] = "body" /\ op[t] \in NetworkOps /\ pc'[t] # "body"
               /\ ~_no_login /\ ~Truthy(_cookies)) =>
                /\ pc'[t] = "lock_wait"
                /\ req'[t] = NoReq]_vars
    /\ [][\A t \in Threads :
            (pc[t] = "lock_wait" /\ pc'[t] # "lock_wait") =>
                /\ pc'[t] = "login_inflight"
                /\ req'[t].url = UrlLogin]_vars
    /\ [][\A t \in Threads :
            (pc[t] = "login_inflight" /\ stage[t] \in {"first", "replay"}
               /\ pc'[t] # "login_inflight") =>
                LET s == trace'[t] IN
                IF s[Len(s)] = "login_ok"
                  THEN /\ pc'[t] = "post"
                       /\ Truthy(_cookies')
                  ELSE /\ s[Len(s)] \in LoginFailEvents
                       /\ req'[t] = NoReq
                       /\ \/ pc'[t] = "done" /\ outcome'[t].kind = "raise"
                          \/ pc'[t] = "lock_wait" /\ stage'[t] = "relogin"]_vars

\* C14: once get_post_list_of or get_course_intro has received a code = 0
\* envelope whose data is empty, the call has failed with a GkApiError, and
\* the envelope's arrival and the raise are the last events of the call: no
\* re-login and no further request follow.
C14_EmptyDataNotRetried ==
    \A t \in Threads :
        (op[t] \in {"get_post_list_of", "get_course_intro"}
           /\ served[t] # <<>> /\ ~served[t][1].present) =>
            LET s == trace[t]  n == Len(trace[t]) IN
            /\ pc[t] = "done"
            /\ req[t] = NoReq
            /\ stage[t] \in {"first", "replay"}
            /\ n >= 3
            /\ s[n - 2] = "read_req" /\ s[n - 1] = "read_ok"
            /\ s[n] \in {"raise_Exception", "raise_GkApiError"}
            /\ outcome[t].kind = "raise"
            /\ IsGkApiError(outcome[t].exc)

\* the lists of the pages the server has answered in the current attempt
PresentPage(d) == d.present
ListsServed(t) ==
    LET ps == SelectSeq(served[t], PresentPage) IN
    [i \in 1..Len(ps) |-> ps[i].list]

\* C15: in get_post_comments the accumulator holds the pages of the current
\* attempt and nothing else, so a replay starts empty; the first cursor of
\* every attempt is 0; a result that is returned is the pages of the attempt
\* that returned it, each once and in order; a call that fails hands over no
\* pages.
C15_NoResumeNoLeak ==
    \A t \in Threads :
        op[t] = "get_post_comments" =>
            /\ arr[t] = ListsServed(t)
            /\ cursors[t] # <<>> => cursors[t][1] = 0
            /\ outcome[t].kind = "return" =>
                 /\ Len(outcome[t].val) = Len(served[t])
                 /\ \A i \in 1..Len(served[t]) :
                        served[t][i].present /\ outcome[t].val[i] = served[t][i].list
            /\ outcome[t].kind = "raise" => outcome[t].val = <<>>

\* the replay has returned its pages after a first attempt that had one page
\* when its second request failed on the transport
C15_Witness ==
    \E t \in Threads :
        /\ op[t] = "get_post_comments" /\ pc[t] = "done" /\ stage[t] = "replay"
        /\ outcome[t].kind = "return"
        /\ SubSeq(trace[t], 1, 5) =
             <<"body", "read_req", "read_ok", "read_req", "read_fail_transport">>
        /\ Len(outcome[t].val) = 2

\* C16: once the client is constructed, (1) the session changes only in a step
\* in which a login completes successfully, and it is then exactly the cookies
\* of that login; (2) a step in which a login fails leaves the session as it
\* was; (3) no step of a read request (sending it, receiving its answer or its
\* failure) changes the session.
C16_SessionFrame ==
    [][phase # "new" =>
         /\ _cookies' # _cookies =>
              \E t \in Threads :
                  /\ pc[t] = "login_inflight"
                  /\ trace'[t] = Append(trace[t], "login_ok")
                  /\ nlogins' = nlogins + 1
                  /\ _cookies'.set
                  /\ _cookies'.by = nlogins'
                  /\ _cookies'.items \subseteq {nlogins'}
         /\ \A t \in Threads :
              (pc[t] = "login_inflight" /\ trace'[t] # trace[t]
                 /\ trace'[t][Len(trace'[t])] \in LoginFailEvents) =>
                  _cookies' = _cookies
         /\ \A t \in Threads :
              (pc[t] \in {"post", "read_inflight"} /\ pc'[t] # pc[t]) =>
                  _cookies' = _cookies]_vars

\* the forced re-login of a client constructed with a session has failed and
\* the supplied session is still in place
C16_Witness ==
    \E t \in Threads :
        /\ stage[t] = "relogin" /\ pc[t] = "done"
        /\ trace[t][Len(trace[t])] \in LoginFailEvents
        /\ _cookies = SuppliedJar

\* C17: when the login that follows a transport failure of the first attempt
\* fails, that failure is the last event of the call: the body has run once,
\* nothing is on the wire, and the caller gets the login's own failure (the
\* RequestException, or the GkApiError with the server's message), unwrapped.
C17_ReloginFailureEndsCall ==
    \A t \in Threads :
        InCall(t) =>
            \A i \in DOMAIN trace[t] :
                (i >= 3 /\ trace[t][i] \in LoginFailEvents
                   /\ trace[t][i - 1] = "login_req"
                   /\ trace[t][i - 2] \in TransportEvents) =>
                    /\ i = Len(trace[t])
                    /\ pc[t] = "done" /\ stage[t] = "relogin"
                    /\ req[t] = NoReq
                    /\ Count(trace[t], "body") = 1
                    /\ outcome[t].kind = "raise"
                    /\ outcome[t].cause = ""
                    /\ IF trace[t][i] = "login_fail_transport"
                         THEN IsRequestException(outcome[t].exc)
                         ELSE /\ outcome[t].exc = "GkApiError"
                              /\ outcome[t].msg = "geektime api fail:" \o srvMsg[t]

\* the read request failed on the transport and the forced re-login was
\* rejected by the server
C17_Witness ==
    \E t \in Threads :
        /\ pc[t] = "done"
        /\ trace[t] = <<"body", "read_req", "read_fail_transport", "login_req",
                        "login_fail_api">>
        /\ outcome[t].exc = "GkApiError"
        /\ srvMsg[t] = "not login"

\* the number of the login that produced the jar c
JarNo(c) == c.by

\* C18: a read request sent by the replay carries a session; the call has
\* seen its first attempt fail and then its forced re-login succeed; the
\* session carried is the one that re-login produced or one produced by a
\* later login, and it is not the session the failed attempt was using.
C18_ReplayCarriesNewSession ==
    \A t \in Threads :
        (stage[t] = "replay" /\ ReadRequestOnWire(t)) =>
            /\ Len(jars[t]) = 2
            /\ jars[t][1].ev = "failed" /\ jars[t][2].ev = "relogin"
            /\ jars[t][2].cookies.set /\ JarNo(jars[t][2].cookies) >= 1
            /\ req[t].cookies.set
            /\ JarNo(req[t].cookies) >= JarNo(jars[t][2].cookies)
            /\ req[t].cookies # jars[t][1].cookies

\* a replayed request carries the session of a login completed after this
\* call's forced re-login (the re-login's response set no cookie, so the
\* replayed body logged in again)
C18_Witness ==
    \E t \in Threads :
        /\ stage[t] = "replay" /\ ReadRequestOnWire(t)
        /\ Truthy(jars[t][1].cookies)
        /\ JarNo(req[t].cookies) > JarNo(jars[t][2].cookies)

\* the lock is held by exactly the thread that is inside reset_session, so a
\* thread that asks for the lock never holds it already
LockHeldInsideLogin ==
    \A t \in Threads : (_lock = t) <=> (pc[t] = "login_inflight")

\* a thread waiting for the lock waits for a holder that is inside
\* reset_session with its login request sent
WaitsForALogin ==
    \A t \in Threads :
        pc[t] = "lock_wait" =>
            \/ _lock = "free"
            \/ \E u \in Threads \ {t} :
                   _lock = u /\ pc[u] = "login_inflight" /\ req[u].url = UrlLogin

\* thread t is out of the client, having returned or raised, without the lock
CallEnded(t) == pc[t] \in {"done", "idle"} /\ _lock # t

\* a thread other than t holds the lock
Overtaken(t) == \E u \in Threads \ {t} : _lock = u

\* C19 as stated: no thread asks for the lock while holding it, a waiter
\* waits for a login in flight, and every thread that is inside the client
\* gets out of it, returning or raising, without the lock.
C19_LockNeverDeadlocks ==
    /\ []LockHeldInsideLogin
    /\ []WaitsForALogin
    /\ \A t \in Threads : (pc[t] # "idle") ~> CallEnded(t)

\* C19 amended: no thread asks for the lock while holding it, a waiter waits
\* for a login in flight, and every thread that is inside the client gets out
\* of it, returning or raising, without the lock, unless other threads take
\* the lock again and again for ever. Either way a holder gives the lock up.
C19_LockPassesOn ==
    /\ []LockHeldInsideLogin
    /\ []WaitsForALogin
    /\ \A t \in Threads :
         \/ []<>Overtaken(t)
         \/ (pc[t] # "idle") ~> CallEnded(t)

\* both threads have got through the login one after the other: one has
\* returned while the other, having waited for the lock, holds it
C19_Witness ==
    \E t, u \in Threads :
        /\ t # u
        /\ pc[t] = "done" /\ outcome[t].kind = "return"
        /\ Count(trace[t], "login_ok") = 1
        /\ pc[u] = "login_inflight" /\ _lock = u

====
